---- MODULE Spec2Model ----
(***************************************************************************)
(* Refund workflow of the ShopSmart support agent: the agent tool          *)
(* request_refund (app/agent.py) and the admin endpoint                    *)
(* admin_review_refund (app/main.py), run by concurrent requests that each *)
(* own a database session (app/utils/db.py) over the shared tables Order   *)
(* and RefundTicket (app/models.py).                                       *)
(*                                                                         *)
(* A session reads rows with session.get (a SELECT that sees the committed *)
(* table), changes its own in-memory copies, and writes them at            *)
(* session.commit().  A handler is therefore a short sequence of steps,    *)
(* one per database access, and steps of different requests interleave.    *)
(* A commit writes the columns the handler assigned (UPDATE ... WHERE id)   *)
(* or inserts the new row; the code takes no row lock and keeps no version *)
(* column, so a commit never looks at what the row holds by then.          *)
(* Prices are whole currency units; reason and timestamps steer nothing    *)
(* and are left out of the rows.                                           *)
(***************************************************************************)
EXTENDS Integers, Sequences, FiniteSets, Bags, TLC

\* ---- bounds of the model ----
\* requests that may be between their first read and their commit at once
NumSessions == 2
\* rows the table RefundTicket may hold
MaxTickets == 2

\* ---- program constants ----
Threshold == 50

OrderStatus == {"processing", "shipped", "delivered", "returned"}
TicketStatus == {"open", "pending_approval", "approved", "rejected", "closed"}

\* AdminDecision.decision is a free string: the two the handler knows and another
Decisions == {"approve", "reject", "maybe"}

\* ---- input domains ----
Customers == {1, 2}
OrderIds == {1, 2}
\* prices around the threshold: a unit below, equal, a unit above
Prices == {Threshold - 1, Threshold, Threshold + 1}
\* the prices an order starts with: order 1 lies below or at the threshold,
\* order 2 below or above it
InitPrices(order_id) ==
  IF order_id = 1 THEN {Threshold - 1, Threshold} ELSE {Threshold - 1, Threshold + 1}
\* the statuses the orders start with: one the refund flow treats as open, and returned
InitStatus == {"delivered", "returned"}
\* ids a caller may pass: the existing orders and one id of no order
OrderIdArgs == OrderIds \cup {3}
TicketIdArgs == 1 .. (MaxTickets + 1)
\* the optional order_id of check_refund_status: {} is None, {n} is the number n
OrderFilterArgs == {{}} \cup {{n} : n \in {0} \cup OrderIdArgs}

VARIABLES
  orders,    \* table Order: id -> row
  tickets,   \* table RefundTicket: sequence of rows, the id is the index
  inflight,  \* bag of the requests between their first read and their commit:
             \* where each handler stands, with its local variables
  last,      \* the call that returned last and what it gave back
  mail       \* the mock email that call printed, if it printed one

vars == <<orders, tickets, inflight, last, mail>>

NoCall == [op |-> "none", result |-> "none", order_id |-> 0, ticket_id |-> 0]

\* the call printed no email
NoMail == [to |-> 0, order_id |-> 0, text |-> "none"]

\* Customer rows are read-only here; order i belongs to customer i
Owner(order_id) == order_id

\* session.get(Order, order_id): the row or None
OrderExists(order_id) == order_id \in DOMAIN orders

\* session.get(RefundTicket, ticket_id): the row or None
TicketExists(ticket_id) == ticket_id \in DOMAIN tickets

Init ==
  /\ orders \in [OrderIds -> [customer_id : Customers, total_price : Prices, status : InitStatus]]
  /\ \A o \in OrderIds :
       orders[o].customer_id = Owner(o) /\ orders[o].total_price \in InitPrices(o)
  /\ tickets = <<>>
  /\ inflight = EmptyBag
  /\ last = NoCall
  /\ mail = NoMail

\* a request enters the bag at its first read and leaves it at its commit
Enter(req) == inflight' = inflight (+) SetToBag({req})
Leave(req) == inflight' = inflight (-) SetToBag({req})
Running == BagToSet(inflight)

\* a handler thread is free to take the request
SessionFree == BagCardinality(inflight) < NumSessions

\* number of requests that hold a ticket not yet inserted
PendingInserts ==
  BagCardinality([r \in {q \in Running : q.pc = "rr_escalate"} |-> inflight[r]])

\* a handler returns without having printed an email
Returned(op, result, order_id, ticket_id) ==
  /\ last' = [op |-> op, result |-> result, order_id |-> order_id, ticket_id |-> ticket_id]
  /\ mail' = NoMail

\* faulty variant: the email names the ticket's id where the order's belongs
ApprovalMail_TicketId(ticket_id) ==
  [to |-> tickets[ticket_id].customer_id, order_id |-> ticket_id, text |-> "APPROVED"]

\* admin_review_refund, line 123: the email printed after the commit of an approval
ApprovalMail(ticket_id) ==
  [to |-> tickets[ticket_id].customer_id, order_id |-> tickets[ticket_id].order_id,
   text |-> "APPROVED"]

\* a handler returns after having printed the email
ReturnedMailed(op, result, order_id, ticket_id, email) ==
  /\ last' = [op |-> op, result |-> result, order_id |-> order_id, ticket_id |-> ticket_id]
  /\ mail' = email

(***************************************************************************)
(* request_refund, lines 171-192 / 171-206: read the order, check it,      *)
(* choose the path and change the in-memory objects.  The early returns    *)
(* end the call here.                                                      *)
(***************************************************************************)

\* faulty variant: the comparison written <=
AutoApprove_Le(total_price) == total_price <= Threshold

\* line 190: the refund is settled without review
AutoApprove(total_price) == total_price < Threshold

\* faulty variant: the check of lines 183-184 left out
RequestRefundGuard_NoReturnedCheck(user_id, order_id) ==
  IF ~OrderExists(order_id) THEN "NotFound"
  ELSE IF orders[order_id].customer_id # user_id THEN "Forbidden"
  ELSE "pass"

\* faulty variant: the check of lines 180-181 left out
RequestRefundGuard_NoOwnerCheck(user_id, order_id) ==
  IF ~OrderExists(order_id) THEN "NotFound"
  ELSE IF orders[order_id].status = "returned" THEN "AlreadyReturned"
  ELSE "pass"

\* faulty variant: the status is checked before the owner
RequestRefundGuard_ReturnedFirst(user_id, order_id) ==
  IF ~OrderExists(order_id) THEN "NotFound"
  ELSE IF orders[order_id].status = "returned" THEN "AlreadyReturned"
  ELSE IF orders[order_id].customer_id # user_id THEN "Forbidden"
  ELSE "pass"

\* faulty variant: a request is refused while the order has a pending ticket
RequestRefundGuard_OnePending(user_id, order_id) ==
  IF ~OrderExists(order_id) THEN "NotFound"
  ELSE IF orders[order_id].customer_id # user_id THEN "Forbidden"
  ELSE IF orders[order_id].status = "returned" THEN "AlreadyReturned"
  ELSE IF \E t \in DOMAIN tickets :
            tickets[t].order_id = order_id /\ tickets[t].status = "pending_approval"
    THEN "AlreadyPending"
  ELSE "pass"

\* the checks of lines 177-184, in their order; "pass" when none returns
RequestRefundGuard(user_id, order_id) ==
  IF ~OrderExists(order_id) THEN "NotFound"
  ELSE IF orders[order_id].customer_id # user_id THEN "Forbidden"
  ELSE IF orders[order_id].status = "returned" THEN "AlreadyReturned"
  ELSE "pass"

\* lines 171-192 (auto-approve) and 171-206 (ticket): all but the commit
RequestRefundCheck(user_id, order_id) ==
  /\ SessionFree
  /\ IF RequestRefundGuard(user_id, order_id) # "pass"
       THEN /\ Returned("request_refund", RequestRefundGuard(user_id, order_id), order_id, 0)
            /\ UNCHANGED <<orders, tickets, inflight>>
     ELSE IF AutoApprove(orders[order_id].total_price)
       THEN /\ Enter([pc |-> "rr_settle", user_id |-> user_id, order_id |-> order_id,
                      ticket_id |-> 0, amount |-> orders[order_id].total_price])
            /\ UNCHANGED <<orders, tickets, last, mail>>
     ELSE /\ Len(tickets) + PendingInserts < MaxTickets
          /\ Enter([pc |-> "rr_escalate", user_id |-> user_id, order_id |-> order_id,
                    ticket_id |-> 0, amount |-> orders[order_id].total_price])
          /\ UNCHANGED <<orders, tickets, last, mail>>

\* faulty variant: the commit without the assignment of line 191
RequestRefundSettle_KeepsStatus(req) ==
  /\ req.pc = "rr_settle"
  /\ Leave(req)
  /\ Returned("request_refund", "Settled", req.order_id, 0)
  /\ UNCHANGED <<orders, tickets>>

\* request_refund, lines 193-194: commit of the auto-approved refund
RequestRefundSettle(req) ==
  /\ req.pc = "rr_settle"
  /\ orders' = [orders EXCEPT ![req.order_id].status = "returned"]
  /\ Leave(req)
  /\ Returned("request_refund", "Settled", req.order_id, 0)
  /\ UNCHANGED tickets

\* faulty variant: status not passed, the column default of RefundTicket applies
NewTicket_DefaultStatus(user_id, order_id, amount) ==
  [customer_id |-> user_id, order_id |-> order_id, amount |-> amount, status |-> "open"]

\* the row request_refund builds at lines 199-205
NewTicket(user_id, order_id, amount) ==
  [customer_id |-> user_id, order_id |-> order_id, amount |-> amount,
   status |-> "pending_approval"]

\* request_refund, lines 206-211: commit of the new ticket
RequestRefundEscalate(req) ==
  /\ req.pc = "rr_escalate"
  /\ tickets' = Append(tickets, NewTicket(req.user_id, req.order_id, req.amount))
  /\ Leave(req)
  /\ Returned("request_refund", "Escalated", req.order_id, Len(tickets) + 1)
  /\ UNCHANGED orders

(***************************************************************************)
(* admin_review_refund, lines 99-111 / 99-129 / 132-133: read the ticket,  *)
(* check it, look at the decision.                                         *)
(***************************************************************************)

\* faulty variant: the check of lines 105-106 left out
AdminGuard_NoStatusCheck(ticket_id, decision) ==
  IF ~TicketExists(ticket_id) THEN "NotFound"
  ELSE IF decision \notin {"approve", "reject"} THEN "InvalidDecision"
  ELSE "pass"

\* faulty variant: the decision is looked at before the ticket's status
AdminGuard_DecisionFirst(ticket_id, decision) ==
  IF ~TicketExists(ticket_id) THEN "NotFound"
  ELSE IF decision \notin {"approve", "reject"} THEN "InvalidDecision"
  ELSE IF tickets[ticket_id].status # "pending_approval" THEN "AlreadyProcessed"
  ELSE "pass"

\* the checks of lines 102-106 and the else of line 132; "pass" when none raises
AdminGuard(ticket_id, decision) ==
  IF ~TicketExists(ticket_id) THEN "NotFound"
  ELSE IF tickets[ticket_id].status # "pending_approval" THEN "AlreadyProcessed"
  ELSE IF decision \notin {"approve", "reject"} THEN "InvalidDecision"
  ELSE "pass"

\* lines 99-119 (approve), 99-129 (reject), 99-106 and 132-133 (errors): all but the commit
AdminCheck(ticket_id, decision) ==
  /\ SessionFree
  /\ IF AdminGuard(ticket_id, decision) # "pass"
       THEN /\ Returned("admin_review_refund", AdminGuard(ticket_id, decision), 0, ticket_id)
            /\ UNCHANGED <<orders, tickets, inflight>>
     ELSE /\ Enter([pc |-> IF decision = "approve" THEN "ar_approve" ELSE "ar_reject",
                    user_id |-> 0, order_id |-> tickets[ticket_id].order_id,
                    ticket_id |-> ticket_id, amount |-> 0])
          /\ UNCHANGED <<orders, tickets, last, mail>>

\* faulty variant: the order update of lines 114-117 left out
AdminApprove_TicketOnly(req) ==
  /\ req.pc = "ar_approve"
  /\ tickets' = [tickets EXCEPT ![req.ticket_id].status = "approved"]
  /\ Leave(req)
  /\ Returned("admin_review_refund", "Approved", req.order_id, req.ticket_id)
  /\ UNCHANGED orders

\* admin_review_refund, lines 114-125: read the order, commit both rows.
\* The order is read only to see whether it exists, and no handler deletes
\* an order, so the read and the commit are one step.
AdminApprove(req) ==
  /\ req.pc = "ar_approve"
  /\ tickets' = [tickets EXCEPT ![req.ticket_id].status = "approved"]
  /\ orders' = IF OrderExists(req.order_id)
                 THEN [orders EXCEPT ![req.order_id].status = "returned"]
                 ELSE orders
  /\ Leave(req)
  /\ ReturnedMailed("admin_review_refund", "Approved", req.order_id, req.ticket_id,
                    ApprovalMail(req.ticket_id))

\* faulty variant: the rejection also writes the order, as the approval does
AdminReject_ReturnsOrder(req) ==
  /\ req.pc = "ar_reject"
  /\ tickets' = [tickets EXCEPT ![req.ticket_id].status = "rejected"]
  /\ orders' = [orders EXCEPT ![req.order_id].status = "returned"]
  /\ Leave(req)
  /\ Returned("admin_review_refund", "Rejected", req.order_id, req.ticket_id)

\* admin_review_refund, lines 129-131: commit of the rejection
AdminReject(req) ==
  /\ req.pc = "ar_reject"
  /\ tickets' = [tickets EXCEPT ![req.ticket_id].status = "rejected"]
  /\ Leave(req)
  /\ Returned("admin_review_refund", "Rejected", req.order_id, req.ticket_id)
  /\ UNCHANGED orders

(***************************************************************************)
(* The queries: get_order_details and check_refund_status (agent.py),      *)
(* list_pending_tickets (main.py).  Each runs one SELECT and returns.      *)
(***************************************************************************)

\* the ids of the rows of RefundTicket, in table order
TicketIdSeq == [i \in 1 .. Len(tickets) |-> i]

\* Python's truth value of an int | None argument: None and 0 are false
Truthy(arg) == arg # {} /\ arg # {0}

\* get_order_details, lines 118-126: what the tool answers
GetOrderDetailsResult(user_id, order_id) ==
  IF ~OrderExists(order_id) THEN "NotFound"
  ELSE IF orders[order_id].customer_id # user_id THEN "Forbidden"
  ELSE "Details"

\* faulty variant: the lookup marks the order as it reads it
GetOrderDetails_Touches(user_id, order_id) ==
  /\ SessionFree
  /\ Returned("get_order_details", GetOrderDetailsResult(user_id, order_id), 0, 0)
  /\ orders' = IF OrderExists(order_id)
                 THEN [orders EXCEPT ![order_id].status = "processing"]
                 ELSE orders
  /\ UNCHANGED <<tickets, inflight>>

\* get_order_details, lines 109-126
GetOrderDetails(user_id, order_id) ==
  /\ SessionFree
  /\ Returned("get_order_details", GetOrderDetailsResult(user_id, order_id), 0, 0)
  /\ UNCHANGED <<orders, tickets, inflight>>

\* faulty variant: the filter by customer left out when an order is named
CheckRefundStatusRows_OrderOnly(user_id, order_arg) ==
  LET Match(t) == IF Truthy(order_arg) THEN tickets[t].order_id \in order_arg
                  ELSE tickets[t].customer_id = user_id
  IN SelectSeq(TicketIdSeq, Match)

\* check_refund_status, lines 140-146: the tickets the query selects
CheckRefundStatusRows(user_id, order_arg) ==
  LET Match(t) == /\ tickets[t].customer_id = user_id
                  /\ Truthy(order_arg) => tickets[t].order_id \in order_arg
  IN SelectSeq(TicketIdSeq, Match)

\* check_refund_status, lines 131-155
CheckRefundStatus(user_id, order_arg) ==
  /\ SessionFree
  /\ Returned("check_refund_status",
              IF CheckRefundStatusRows(user_id, order_arg) = <<>> THEN "NoTickets" ELSE "Listed",
              0, 0)
  /\ UNCHANGED <<orders, tickets, inflight>>

\* faulty variant: the query selects the tickets not yet approved
ListPendingRows_NotApproved ==
  LET Match(t) == tickets[t].status # "approved"
  IN SelectSeq(TicketIdSeq, Match)

\* list_pending_tickets, lines 141-143: the tickets the query selects
ListPendingRows ==
  LET Match(t) == tickets[t].status = "pending_approval"
  IN SelectSeq(TicketIdSeq, Match)

\* list_pending_tickets, lines 137-143
ListPendingTickets ==
  /\ SessionFree
  /\ Returned("list_pending_tickets", "Listed", 0, 0)
  /\ UNCHANGED <<orders, tickets, inflight>>

\* a request starts: its handler runs up to its first commit or early return
BeginRequestRefund == \E u \in Customers, o \in OrderIdArgs : RequestRefundCheck(u, o)
BeginAdminReview == \E t \in TicketIdArgs, d \in Decisions : AdminCheck(t, d)

\* a query is asked and answered
AskOrderDetails == \E u \in Customers, o \in OrderIdArgs : GetOrderDetails(u, o)
AskRefundStatus == \E u \in Customers, a \in OrderFilterArgs : CheckRefundStatus(u, a)
AskPendingTickets == ListPendingTickets

\* a running request commits and returns
CommitSettle == \E req \in Running : RequestRefundSettle(req)
CommitEscalate == \E req \in Running : RequestRefundEscalate(req)
CommitApprove == \E req \in Running : AdminApprove(req)
CommitReject == \E req \in Running : AdminReject(req)

\* requests are served concurrently, each in its own session
Next ==
  \/ BeginRequestRefund
  \/ BeginAdminReview
  \/ CommitSettle
  \/ CommitEscalate
  \/ CommitApprove
  \/ CommitReject

Spec == Init /\ [][Next]_vars

\* no request runs: the one before has returned
Quiet == inflight = EmptyBag

\* requests arrive one after the other: none starts while another runs
SeqNext ==
  \/ Quiet /\ BeginRequestRefund
  \/ Quiet /\ BeginAdminReview
  \/ CommitSettle
  \/ CommitEscalate
  \/ CommitApprove
  \/ CommitReject

SeqSpec == Init /\ [][SeqNext]_vars

\* the refund requests served concurrently, and the queries asked among them
QueryNext ==
  \/ BeginRequestRefund
  \/ BeginAdminReview
  \/ CommitSettle
  \/ CommitEscalate
  \/ CommitApprove
  \/ CommitReject
  \/ AskOrderDetails
  \/ AskRefundStatus
  \/ AskPendingTickets

QuerySpec == Init /\ [][QueryNext]_vars

(***************************************************************************)
(* Properties                                                              *)
(***************************************************************************)

\* the step is the commit of the running request req
CommitOf(req) == req \in Running /\ inflight' = inflight (-) SetToBag({req})

\* the record of a call that returned
Outcome(op, result, order_id, ticket_id) ==
  [op |-> op, result |-> result, order_id |-> order_id, ticket_id |-> ticket_id]

\* request_refund reaches its policy decision: the order is the caller's and open
Refundable(user_id, order_id) ==
  /\ OrderExists(order_id)
  /\ orders[order_id].customer_id = user_id
  /\ orders[order_id].status # "returned"

\* C1: an order is refunded at most once: a call returns Settled for an
\* order, or approves a ticket of an order, only while that order is not
\* yet returned.
C1_RefundedAtMostOnce ==
  [][\A req \in Running :
       (req.pc \in {"rr_settle", "ar_approve"} /\ OrderExists(req.order_id) /\ CommitOf(req))
         => orders[req.order_id].status # "returned"]_vars

\* C2: of the requests for a refund of one order that run at once, at most
\* one returns Settled: the call that returns Settled is the one that moved
\* the order to returned, another one sees the order returned.
C2_OneSettledPerOrder ==
  [][\A req \in Running :
       (req.pc = "rr_settle" /\ CommitOf(req) /\ last'.result = "Settled")
         => orders[last'.order_id].status # "returned"]_vars

\* C3: a request for the refund of the caller's own open order priced below
\* the threshold takes the settle path, and that path ends by returning
\* Settled with the order returned, no other order changed and the tickets
\* as they were.
C3_SettlesBelowThreshold ==
  [][/\ \A u \in Customers, o \in OrderIdArgs :
          (Refundable(u, o) /\ orders[o].total_price < Threshold /\ RequestRefundCheck(u, o))
            => /\ \E req \in BagToSet(inflight') :
                    /\ req.pc = "rr_settle" /\ req.order_id = o
                    /\ inflight' = inflight (+) SetToBag({req})
               /\ UNCHANGED <<orders, tickets>>
     /\ \A req \in Running :
          (req.pc = "rr_settle" /\ CommitOf(req))
            => /\ last' = Outcome("request_refund", "Settled", req.order_id, 0)
               /\ orders'[req.order_id].status = "returned"
               /\ \A o \in OrderIds \ {req.order_id} : orders'[o] = orders[o]
               /\ orders'[req.order_id].total_price < Threshold
               /\ tickets' = tickets]_vars

C3_Witness ==
  /\ last.op = "request_refund" /\ last.result = "Settled"
  /\ orders[last.order_id].status = "returned"
  /\ orders[last.order_id].total_price < Threshold
  /\ tickets = <<>>

\* C4: a request for the refund of the caller's own open order priced at or
\* above the threshold takes the escalate path, and that path ends by adding
\* exactly one ticket, pending_approval, with the order's price, the call's
\* order and customer, and changes no order.
C4_EscalatesFromThreshold ==
  [][/\ \A u \in Customers, o \in OrderIdArgs :
          (Refundable(u, o) /\ orders[o].total_price >= Threshold /\ RequestRefundCheck(u, o))
            => /\ \E req \in BagToSet(inflight') :
                    /\ req.pc = "rr_escalate" /\ req.order_id = o /\ req.user_id = u
                    /\ inflight' = inflight (+) SetToBag({req})
               /\ UNCHANGED <<orders, tickets>>
     /\ \A req \in Running :
          (req.pc = "rr_escalate" /\ CommitOf(req))
            => /\ last' = Outcome("request_refund", "Escalated", req.order_id, Len(tickets) + 1)
               /\ tickets' = Append(tickets,
                    [customer_id |-> req.user_id, order_id |-> req.order_id,
                     amount |-> orders[req.order_id].total_price,
                     status |-> "pending_approval"])
               /\ orders[req.order_id].total_price >= Threshold
               /\ orders' = orders]_vars

C4_Witness ==
  /\ last.op = "request_refund" /\ last.result = "Escalated"
  /\ tickets[last.ticket_id].status = "pending_approval"
  /\ tickets[last.ticket_id].order_id = last.order_id
  /\ tickets[last.ticket_id].amount = orders[last.order_id].total_price
  /\ orders[last.order_id].status # "returned"

\* C5: the comparison with the threshold is strict: a refundable order
\* priced exactly at the threshold goes the approval way (a pending ticket,
\* the order untouched), one priced a unit below is settled at once.
C5_ThresholdStrict ==
  [][\A u \in Customers, o \in OrderIdArgs :
       (Refundable(u, o) /\ RequestRefundCheck(u, o))
         => /\ orders[o].total_price = Threshold
                 => \E req \in BagToSet(inflight') :
                      req.pc = "rr_escalate" /\ req.order_id = o /\ req.amount = Threshold
            /\ orders[o].total_price = Threshold - 1
                 => \E req \in BagToSet(inflight') :
                      req.pc = "rr_settle" /\ req.order_id = o /\ req.amount = Threshold - 1]_vars

C5_Witness ==
  /\ \E t \in DOMAIN tickets :
       /\ tickets[t].amount = Threshold
       /\ tickets[t].status = "pending_approval"
       /\ orders[tickets[t].order_id].status # "returned"
  /\ \E o \in OrderIds :
       /\ orders[o].total_price = Threshold - 1
       /\ last = Outcome("request_refund", "Settled", o, 0)

\* C6: approving a pending ticket writes the ticket approved and its order
\* returned in one commit, so no state shows a ticket approved while the
\* order it names exists and is not returned.
C6_ApprovedImpliesReturned ==
  /\ [][\A req \in Running :
          (req.pc = "ar_approve" /\ OrderExists(req.order_id) /\ CommitOf(req))
            => /\ tickets'[req.ticket_id].status = "approved"
               /\ orders'[req.order_id].status = "returned"
               /\ last' = Outcome("admin_review_refund", "Approved", req.order_id, req.ticket_id)]_vars
  /\ [](\A t \in DOMAIN tickets :
          (tickets[t].status = "approved" /\ OrderExists(tickets[t].order_id))
            => orders[tickets[t].order_id].status = "returned")

C6_Witness ==
  /\ last.op = "admin_review_refund" /\ last.result = "Approved"
  /\ tickets[last.ticket_id].status = "approved"
  /\ orders[tickets[last.ticket_id].order_id].status = "returned"

\* C7: a decision sent for a ticket that is already approved or rejected is
\* answered AlreadyProcessed, whatever the decision, and changes no ticket
\* and no order.
C7_ResolvedIsTerminal ==
  [][\A t \in TicketIdArgs, d \in Decisions :
       (TicketExists(t) /\ tickets[t].status \in {"approved", "rejected"} /\ AdminCheck(t, d))
         => /\ last' = Outcome("admin_review_refund", "AlreadyProcessed", 0, t)
            /\ UNCHANGED <<orders, tickets, inflight>>]_vars

C7_Witness ==
  /\ last.op = "admin_review_refund" /\ last.result = "AlreadyProcessed"
  /\ TicketExists(last.ticket_id)
  /\ tickets[last.ticket_id].status \in {"approved", "rejected"}

\* C8: rejecting a pending ticket changes that ticket's status to rejected
\* and nothing else: every order and every other ticket stay as they were.
C8_RejectTouchesTicketOnly ==
  [][/\ \A t \in TicketIdArgs :
          (TicketExists(t) /\ tickets[t].status = "pending_approval" /\ AdminCheck(t, "reject"))
            => /\ \E req \in BagToSet(inflight') :
                    /\ req.pc = "ar_reject" /\ req.ticket_id = t
                    /\ inflight' = inflight (+) SetToBag({req})
               /\ UNCHANGED <<orders, tickets>>
     /\ \A req \in Running :
          (req.pc = "ar_reject" /\ CommitOf(req))
            => /\ orders' = orders
               /\ tickets' = [tickets EXCEPT ![req.ticket_id].status = "rejected"]
               /\ last' = Outcome("admin_review_refund", "Rejected", req.order_id, req.ticket_id)]_vars

C8_Witness ==
  /\ last.op = "admin_review_refund" /\ last.result = "Rejected"
  /\ tickets[last.ticket_id].status = "rejected"
  /\ orders[tickets[last.ticket_id].order_id].status # "returned"

\* C9: of the decisions sent at once for one pending ticket at most one is
\* applied: a decision is committed only to a ticket that is still
\* pending_approval, the other call sees the ticket processed.
C9_OneDecisionPerTicket ==
  [][\A req \in Running :
       (req.pc \in {"ar_approve", "ar_reject"} /\ CommitOf(req))
         => tickets[req.ticket_id].status = "pending_approval"]_vars

\* C10: a request by the owner for the refund of an order that is already
\* returned is answered AlreadyReturned, whatever the price, and creates no
\* ticket and changes no order.
C10_AlreadyReturnedNoOp ==
  [][\A u \in Customers, o \in OrderIdArgs :
       (OrderExists(o) /\ orders[o].customer_id = u /\ orders[o].status = "returned"
          /\ RequestRefundCheck(u, o))
         => /\ last' = Outcome("request_refund", "AlreadyReturned", o, 0)
            /\ UNCHANGED <<orders, tickets, inflight>>]_vars

C10_Witness ==
  /\ last.op = "request_refund" /\ last.result = "AlreadyReturned"
  /\ orders[last.order_id].status = "returned"
  /\ orders[last.order_id].total_price >= Threshold
  /\ \E t \in DOMAIN tickets : tickets[t].order_id = last.order_id /\ tickets[t].status = "approved"

\* C11: a request for the refund of an existing order of another customer
\* is answered Forbidden, whatever the order's price and status, and
\* changes no order and creates no ticket.
C11_ForeignOrderForbidden ==
  [][\A u \in Customers, o \in OrderIdArgs :
       (OrderExists(o) /\ orders[o].customer_id # u /\ RequestRefundCheck(u, o))
         => /\ last' = Outcome("request_refund", "Forbidden", o, 0)
            /\ UNCHANGED <<orders, tickets, inflight>>]_vars

C11_Witness ==
  /\ last.op = "request_refund" /\ last.result = "Forbidden"
  /\ orders[last.order_id].status # "returned"
  /\ orders[last.order_id].total_price < Threshold
  /\ tickets = <<>>

\* C12: request_refund checks existence, then ownership, then the status,
\* and stops at the first check that fails: an id of no order gives
\* NotFound, an order of another customer that is returned gives Forbidden
\* and not AlreadyReturned, and a request gets to the policy decision only
\* for an existing, own, not returned order.
C12_GuardOrder ==
  [][\A u \in Customers, o \in OrderIdArgs :
       RequestRefundCheck(u, o)
         => /\ ~OrderExists(o)
                 => /\ last' = Outcome("request_refund", "NotFound", o, 0)
                    /\ UNCHANGED <<orders, tickets, inflight>>
            /\ (OrderExists(o) /\ orders[o].customer_id # u /\ orders[o].status = "returned")
                 => last' = Outcome("request_refund", "Forbidden", o, 0)
            /\ inflight' # inflight => Refundable(u, o)]_vars

C12_Witness ==
  /\ last.op = "request_refund" /\ last.result = "Forbidden"
  /\ orders[last.order_id].status = "returned"

\* C13: nothing keeps the tickets of an order unique: a request by the
\* owner for an open order priced at or above the threshold goes the ticket
\* way also while that order has a pending ticket, and its commit adds a
\* further pending ticket.
C13_DuplicatePendingAllowed ==
  [][/\ \A u \in Customers, o \in OrderIdArgs :
          (/\ Refundable(u, o) /\ orders[o].total_price >= Threshold
           /\ \E t \in DOMAIN tickets :
                tickets[t].order_id = o /\ tickets[t].status = "pending_approval"
           /\ RequestRefundCheck(u, o))
            => \E req \in BagToSet(inflight') :
                 /\ req.pc = "rr_escalate" /\ req.order_id = o
                 /\ inflight' = inflight (+) SetToBag({req})
     /\ \A req \in Running :
          (/\ req.pc = "rr_escalate"
           /\ \E t \in DOMAIN tickets :
                tickets[t].order_id = req.order_id /\ tickets[t].status = "pending_approval"
           /\ CommitOf(req))
            => /\ last'.result = "Escalated"
               /\ Len(tickets') = Len(tickets) + 1
               /\ tickets'[Len(tickets')].order_id = req.order_id
               /\ tickets'[Len(tickets')].status = "pending_approval"]_vars

C13_Witness ==
  /\ last.op = "request_refund" /\ last.result = "Escalated"
  /\ \E t1, t2 \in DOMAIN tickets :
       /\ t1 # t2
       /\ tickets[t1].order_id = tickets[t2].order_id
       /\ tickets[t1].status = "pending_approval"
       /\ tickets[t2].status = "pending_approval"

\* C14: every ticket carries the customer of the order it names.
C14_TicketCustomerIsOrderOwner ==
  \A t \in DOMAIN tickets :
    /\ OrderExists(tickets[t].order_id)
    /\ tickets[t].customer_id = orders[tickets[t].order_id].customer_id

C14_Witness ==
  \E t1, t2 \in DOMAIN tickets :
    /\ tickets[t1].customer_id # tickets[t2].customer_id
    /\ tickets[t1].customer_id = orders[tickets[t1].order_id].customer_id
    /\ tickets[t2].customer_id = orders[tickets[t2].order_id].customer_id

\* C15: an order changes only in its status, only to returned, and only in
\* the commit of an auto-approved refund or of an approval for that order;
\* a returned order stays returned; no step removes an order or a ticket
\* or changes what a ticket names.
C15_OrdersOnlyReturned ==
  [][/\ DOMAIN orders' = DOMAIN orders
     /\ Len(tickets') >= Len(tickets)
     /\ \A t \in DOMAIN tickets :
          /\ tickets'[t].order_id = tickets[t].order_id
          /\ tickets'[t].customer_id = tickets[t].customer_id
          /\ tickets'[t].amount = tickets[t].amount
     /\ \A o \in DOMAIN orders :
          /\ orders[o].status = "returned" => orders'[o].status = "returned"
          /\ orders'[o] # orders[o]
               => /\ orders'[o] = [orders[o] EXCEPT !.status = "returned"]
                  /\ last'.result \in {"Settled", "Approved"}
                  /\ \E req \in Running :
                       /\ req.pc \in {"rr_settle", "ar_approve"}
                       /\ req.order_id = o
                       /\ CommitOf(req)]_vars

C15_Witness ==
  /\ last.result \in {"Settled", "Approved"}
  /\ \E o1, o2 \in OrderIds :
       /\ o1 # o2
       /\ orders[o1].status = "returned" /\ orders[o2].status = "returned"
       /\ orders[o1].total_price < Threshold
       /\ \E t \in DOMAIN tickets : tickets[t].order_id = o2 /\ tickets[t].status = "approved"

\* C16: starting with no tickets, every ticket is pending_approval, approved
\* or rejected: none is ever open or closed.
C16_TicketStatusesProduced ==
  \A t \in DOMAIN tickets :
    tickets[t].status \in {"pending_approval", "approved", "rejected"}

C16_Witness ==
  /\ \E t \in DOMAIN tickets : tickets[t].status = "approved"
  /\ \E t \in DOMAIN tickets : tickets[t].status = "rejected"

\* the set of the elements of a sequence
Range(seq) == {seq[i] : i \in DOMAIN seq}

\* C17: list_pending_tickets gives exactly the tickets that are
\* pending_approval, of all customers, each once: a ticket is listed from
\* the commit that creates it, and is not listed after the commit of a
\* decision on it.
C17_ListPendingExact ==
  /\ [](/\ Range(ListPendingRows) = {t \in DOMAIN tickets : tickets[t].status = "pending_approval"}
        /\ Len(ListPendingRows) = Cardinality(Range(ListPendingRows)))
  /\ [][\A req \in Running :
          /\ (req.pc = "rr_escalate" /\ CommitOf(req))
               => Len(tickets) + 1 \in Range(ListPendingRows')
          /\ (req.pc \in {"ar_approve", "ar_reject"} /\ CommitOf(req))
               => req.ticket_id \notin Range(ListPendingRows')]_vars

C17_Witness ==
  /\ last.op = "list_pending_tickets"
  /\ \E t1, t2 \in DOMAIN tickets :
       /\ tickets[t1].status = "pending_approval"
       /\ tickets[t2].status \in {"approved", "rejected"}
       /\ tickets[t1].customer_id # tickets[t2].customer_id
       /\ ListPendingRows = <<t1>>

\* C18: every decision that is committed, approve or reject, is followed by
\* a notification that names the order and the decision taken.
C18_NotifiedAfterResolve ==
  [][\A req \in Running :
       (req.pc \in {"ar_approve", "ar_reject"} /\ CommitOf(req))
         => /\ mail' # NoMail
            /\ mail'.order_id = req.order_id
            /\ mail'.text = (IF req.pc = "ar_approve" THEN "APPROVED" ELSE "REJECTED")]_vars

\* C19: check_refund_status gives exactly the tickets of the calling
\* customer, and of them those of order o when an order id o is passed,
\* whatever number o is.
C19_ListTicketsExact ==
  \A u \in Customers, a \in OrderFilterArgs :
    Range(CheckRefundStatusRows(u, a)) =
      {t \in DOMAIN tickets :
         /\ tickets[t].customer_id = u
         /\ a # {} => tickets[t].order_id \in a}

\* the calls that only read
QueryOps == {"get_order_details", "check_refund_status", "list_pending_tickets"}

\* C20: a query changes no order and no ticket, and leaves the running
\* requests as they are.
C20_QueriesReadOnly ==
  [][(last'.op \in QueryOps /\ last' # last)
       => UNCHANGED <<orders, tickets, inflight>>]_vars

C20_Witness ==
  /\ last.op = "get_order_details" /\ last.result = "Details"
  /\ tickets # <<>>
  /\ \E o \in OrderIds : orders[o].status = "returned"

\* an order is open, or it is returned and a ticket of it is approved
Gated(o) ==
  orders[o].status = "returned"
    => \E t \in DOMAIN tickets : tickets[t].order_id = o /\ tickets[t].status = "approved"

\* C21: the approval gate: an order priced at or above the threshold that
\* did not start out returned is returned, in any state reached, only while
\* some ticket of that order is approved.  Such an order is gated at the
\* start, so it is gated in every state exactly if no step takes it from
\* gated to not gated.
C21_ApprovalGate ==
  [][\A o \in OrderIds :
       (orders[o].total_price >= Threshold /\ Gated(o)) => Gated(o)']_vars

\* C22: admin_review_refund checks that the ticket exists, then that it is
\* pending_approval, then the decision, and stops at the first check that
\* fails: an id of no ticket gives NotFound whatever the decision, a
\* resolved ticket gives AlreadyProcessed also for a decision that is
\* neither approve nor reject, and such a decision on a pending ticket is
\* refused with the ticket still pending_approval and the orders as they
\* were, so that a decision on the ticket is accepted right after.
C22_AdminGuardOrder ==
  [][\A t \in TicketIdArgs, d \in Decisions :
       AdminCheck(t, d)
         => /\ ~TicketExists(t)
                 => /\ last' = Outcome("admin_review_refund", "NotFound", 0, t)
                    /\ UNCHANGED <<orders, tickets, inflight>>
            /\ (TicketExists(t) /\ tickets[t].status # "pending_approval")
                 => /\ last' = Outcome("admin_review_refund", "AlreadyProcessed", 0, t)
                    /\ UNCHANGED <<orders, tickets, inflight>>
            /\ (/\ TicketExists(t) /\ tickets[t].status = "pending_approval"
                /\ d \notin {"approve", "reject"})
                 => /\ last' = Outcome("admin_review_refund", "InvalidDecision", 0, t)
                    /\ UNCHANGED <<orders, tickets, inflight>>
                    /\ tickets'[t].status = "pending_approval"
                    /\ SessionFree'
                    /\ AdminGuard(t, "approve")' = "pass"
                    /\ AdminGuard(t, "reject")' = "pass"]_vars

C22_Witness ==
  /\ last.op = "admin_review_refund" /\ last.result = "InvalidDecision"
  /\ tickets[last.ticket_id].status = "pending_approval"
  /\ orders[tickets[last.ticket_id].order_id].status # "returned"
  /\ \E t \in DOMAIN tickets : tickets[t].status \in {"approved", "rejected"}

====
